---- MODULE Spec2Model ----
(***************************************************************************)
(* Devices Sync: an Obsidian plugin that reconciles a local vault with a   *)
(* Supabase storage bucket.  The repository holds several versions of the  *)
(* plugin; each is modelled here as its own set of actions over one shared *)
(* state (vaults, bucket, operations in flight):                           *)
(*   M_...   src/main.ts, class DevicesSyncPlugin (lines 1-333)            *)
(*   P1_...  src/unnamed/part_001 (delete / rename handlers, lossy alias)  *)
(* Strings are sequences of one-character strings, so that the alias       *)
(* codecs are computed character by character as the code computes them.   *)
(***************************************************************************)
EXTENDS Integers, Sequences, FiniteSets, TLC

(***************************************************************************)
(* Bounds of the model.                                                    *)
(***************************************************************************)
\* Local writes (user edits and the plugin's own file writes) in one run;
\* each takes the next value of the logical wall clock as its mtime.
MaxClock == 3
\* Full-sync passes started in one run.
MaxPasses == 2
MaxOps == 2

Devices == {1, 2}

(***************************************************************************)
(* Strings.                                                                *)
(***************************************************************************)
Lower == {"a", "b", "c", "d", "e", "f", "g", "h", "i", "j", "k", "l", "m",
          "n", "o", "p", "q", "r", "s", "t", "u", "v", "w", "x", "y", "z"}
Upper == {"A", "B", "C", "D", "E", "F", "G", "H", "I", "J", "K", "L", "M",
          "N", "O", "P", "Q", "R", "S", "T", "U", "V", "W", "X", "Y", "Z"}
Digit == {"0", "1", "2", "3", "4", "5", "6", "7", "8", "9"}

\* String.prototype.toLowerCase, on one character.
LowerOf(c) ==
    CASE c = "A" -> "a" [] c = "B" -> "b" [] c = "C" -> "c" [] c = "D" -> "d"
      [] c = "E" -> "e" [] c = "F" -> "f" [] c = "G" -> "g" [] c = "H" -> "h"
      [] c = "I" -> "i" [] c = "J" -> "j" [] c = "K" -> "k" [] c = "L" -> "l"
      [] c = "M" -> "m" [] c = "N" -> "n" [] c = "O" -> "o" [] c = "P" -> "p"
      [] c = "Q" -> "q" [] c = "R" -> "r" [] c = "S" -> "s" [] c = "T" -> "t"
      [] c = "U" -> "u" [] c = "V" -> "v" [] c = "W" -> "w" [] c = "X" -> "x"
      [] c = "Y" -> "y" [] c = "Z" -> "z" [] OTHER -> c

\* The characters the model's strings are made of.
Chars == Lower \cup Upper \cup Digit
            \cup {".", "-", "_", " ", "/", "%", "e_acute", "U+0301"}

RECURSIVE FlatMap(_, _)
\* The concatenation of f[c] over the characters c of s.
FlatMap(f, s) ==
    IF s = <<>> THEN <<>> ELSE f[Head(s)] \o FlatMap(f, Tail(s))

\* The least index at which pat occurs in s, 0 when it does not occur.
IndexOf(s, pat) ==
    LET hits == {i \in 1..(Len(s) - Len(pat) + 1) :
                    SubSeq(s, i, i + Len(pat) - 1) = pat}
    IN  IF hits = {} THEN 0 ELSE CHOOSE i \in hits : \A j \in hits : i <= j

\* The greatest index at which pat occurs in s, 0 when it does not occur.
LastIndexOf(s, pat) ==
    LET hits == {i \in 1..(Len(s) - Len(pat) + 1) :
                    SubSeq(s, i, i + Len(pat) - 1) = pat}
    IN  IF hits = {} THEN 0 ELSE CHOOSE i \in hits : \A j \in hits : i >= j

\* String.prototype.endsWith.
EndsWith(s, suf) ==
    /\ Len(s) >= Len(suf)
    /\ SubSeq(s, Len(s) - Len(suf) + 1, Len(s)) = suf

\* String.prototype.replace(pat, ''): the first occurrence of pat removed.
RemoveFirst(s, pat) ==
    LET i == IndexOf(s, pat)
    IN  IF i = 0 THEN s
        ELSE SubSeq(s, 1, i - 1) \o SubSeq(s, i + Len(pat), Len(s))

\* path.split('.')[0]: the text before the first dot (all of it without one).
SplitFirst(s) ==
    LET i == IndexOf(s, <<".">>)
    IN  IF i = 0 THEN s ELSE SubSeq(s, 1, i - 1)

\* path.split('.').pop(): the text after the last dot (all of it without one).
SplitPop(s) ==
    LET i == LastIndexOf(s, <<".">>)
    IN  IF i = 0 THEN s ELSE SubSeq(s, i + 1, Len(s))

MetaSuffix == <<".", "m", "e", "t", "a", ".", "j", "s", "o", "n">>
MetaKey(key) == key \o MetaSuffix

(***************************************************************************)
(* The alias codecs.                                                       *)
(***************************************************************************)
\* Characters encodeURIComponent leaves as they are.
UriUnreserved == Lower \cup Upper \cup Digit
                    \cup {"-", "_", ".", "!", "~", "*", "'", "(", ")"}

\* The escape of one character: '%' and the hexadecimal of its UTF-8 bytes.
UriEscape(c) ==
    CASE c = " " -> <<"%", "2", "0">>
      [] c = "/" -> <<"%", "2", "F">>
      [] c = "%" -> <<"%", "2", "5">>
      [] c = "e_acute" -> <<"%", "C", "3", "%", "A", "9">>
      [] c = "U+0301" -> <<"%", "C", "C", "%", "8", "1">>
      [] OTHER -> <<"%", "?">>

EncodeChar(c) == IF c \in UriUnreserved THEN <<c>> ELSE UriEscape(c)

encodeURIComponent(s) == FlatMap([c \in Chars |-> EncodeChar(c)], s)

RECURSIVE CollapseSlashes(_)
CollapseSlashes(s) ==
    IF Len(s) < 2 THEN s
    ELSE IF s[1] = "/" /\ s[2] = "/" THEN CollapseSlashes(Tail(s))
    ELSE <<s[1]>> \o CollapseSlashes(Tail(s))

RECURSIVE TrimSlashes(_)
TrimSlashes(s) ==
    IF s = <<>> THEN s
    ELSE IF Head(s) = "/" THEN TrimSlashes(Tail(s))
    ELSE IF s[Len(s)] = "/" THEN TrimSlashes(SubSeq(s, 1, Len(s) - 1))
    ELSE s

\* obsidian's normalizePath: runs of slashes collapsed, leading and trailing
\* slashes removed.
normalizePath(s) == TrimSlashes(CollapseSlashes(s))

\* getAlias of src/main.ts.
M_getAlias(path) == encodeURIComponent(normalizePath(path))

\* String.prototype.normalize("NFD"), on one character: a precomposed
\* letter becomes its base letter followed by the combining mark.
NfdChar(c) == IF c = "e_acute" THEN <<"e", "U+0301">> ELSE <<c>>

\* The combining diacritical marks, U+0300 to U+036F.
CombiningMarks == {"U+0301"}

DropMark(c) == IF c \in CombiningMarks THEN <<>> ELSE <<c>>

\* replace(/[^a-zA-Z0-9.-]/g, '')
KeepSafe(c) ==
    IF c \in Lower \cup Upper \cup Digit \cup {".", "-"} THEN <<c>> ELSE <<>>

LowerChar(c) == <<LowerOf(c)>>

\* getAlias of src/unnamed/part_001.
P1_getAlias(path) ==
    LET newPath ==
            FlatMap([c \in Chars |-> LowerChar(c)],
                FlatMap([c \in Chars |-> KeepSafe(c)],
                    FlatMap([c \in Chars |-> DropMark(c)],
                        FlatMap([c \in Chars |-> NfdChar(c)], path))))
    IN  encodeURIComponent(normalizePath(newPath))

\* The file name uploadFileAsNew / makeACopy derive: `${alias} 1.${ext}`.
CopyName(path) == SplitFirst(path) \o <<" ", "1", ".">> \o SplitPop(path)

(***************************************************************************)
(* State.                                                                  *)
(***************************************************************************)
VARIABLES
    online,   \* the devices that run the plugin in this run
    clock,    \* the logical wall clock: the mtime of the latest local write
    local,    \* local[d]: device d's vault, path -> [content, mtime]
    remote,   \* the bucket, key -> object (a payload or a sidecar)
    ops,      \* the asynchronous operations in flight, each at its next step
    sync,     \* sync[d]: where device d's syncFiles pass stands
    npass,    \* the full-sync passes started so far
    pass,     \* pass[d]: what d's latest pass saw and dispatched (history)
    stage,    \* stage[d]: d's passes run back to back, undisturbed (history)
    edited,   \* edited[d]: path -> the content of the user's latest edit on d
              \* of a file the user still keeps (history)
    moved,    \* moved[d]: the delete or rename of an uploaded file that the
              \* user made last on d, and how far it has got (history)
    modifiedFiles, \* modifiedFiles[d]: the dirty set of device d, in
              \* insertion order (part_000)
    last      \* the step taken last (history)

vars == <<online, clock, local, remote, ops, sync, npass, pass, stage,
          edited, moved, modifiedFiles, last>>

\* The function with no argument: an empty vault, an empty bucket.
Empty == [x \in {} |-> 0]

Put(f, k, v) == [x \in DOMAIN f \cup {k} |-> IF x = k THEN v ELSE f[x]]
Drop(f, ks) == [x \in DOMAIN f \ ks |-> f[x]]

\* The objects of the bucket: a file's bytes, or a sidecar's JSON.
Bin(content) ==
    [kind |-> "bin", content |-> content, originalPath |-> <<>>, timeStamp |-> 0]
Json(originalPath, timeStamp) ==
    [kind |-> "json", content |-> 0, originalPath |-> originalPath,
     timeStamp |-> timeStamp]

\* A local file: its content (named by the clock value of the edit that wrote
\* it) and its modification time.
File(content, mtime) == [content |-> content, mtime |-> mtime]

\* An operation in flight on device dev, about to take step pc.  path, mtime
\* and live stand for the TFile object an upload holds: while live, the object
\* follows the file's renames and writes.
OpRec(dev, kind, pc, path, key, to, content, mtime, live) ==
    [dev |-> dev, kind |-> kind, pc |-> pc, path |-> path, key |-> key,
     to |-> to, content |-> content, mtime |-> mtime, live |-> live]

OpsOf(d) == {o \in ops : o.dev = d}

\* vault 'modify' on the TFile of path p: file.stat is replaced in place, so
\* the uploads of d that hold the object read the new mtime.
Touched(S, d, p, mtime) ==
    {IF o.dev = d /\ o.live /\ o.path = p THEN [o EXCEPT !.mtime = mtime] ELSE o
        : o \in S}

Step(name, d, path) == [name |-> name, dev |-> d, path |-> path]

NoMove == [kind |-> "none", old |-> <<>>, new |-> <<>>, state |-> "none"]
NoPass == [local |-> {}, remote |-> {}, plan |-> {}, launched |-> {}]
Idle == [pc |-> "idle", localFiles |-> {}]

\* Any step of device d ends the undisturbed run of every other device.
Others(d) == [e \in Devices |-> IF e = d THEN stage[e] ELSE "none"]
\* An operation of d has finished, leaving rest in flight: d's first pass has
\* settled once the pass has dispatched and nothing of d is in flight.
Settle(d, rest) ==
    [Others(d) EXCEPT ![d] =
        IF stage[d] = "first" /\ sync[d].pc = "idle"
              /\ {o \in rest : o.dev = d} = {}
        THEN "settled" ELSE stage[d]]

getLocalFiles(d) ==
    {[path |-> p, timestamp |-> local[d][p].mtime] : p \in DOMAIN local[d]}

\* A getRemoteFiles that reports every object of the listing.
getRemoteObjects ==
    {[path |-> k, timestamp |-> remote[k].timeStamp] : k \in DOMAIN remote}

\* getRemoteFiles: one entry per sidecar of the listing, named by the key
\* with '.meta.json' removed and stamped with the sidecar's timeStamp.
getRemoteFiles ==
    {[path |-> RemoveFirst(k, MetaSuffix), timestamp |-> remote[k].timeStamp]
        : k \in {x \in DOMAIN remote :
                    EndsWith(x, MetaSuffix) /\ remote[x].kind = "json"}}

\* remoteFiles.find(f => f.path === path), as the set of its matches.
FindByPath(files, path) == {f \in files : f.path = path}

(***************************************************************************)
(* src/main.ts, class DevicesSyncPlugin.                                   *)
(***************************************************************************)
\* The paths the user works with.
M_Paths == {<<"a", ".", "m", "d">>, <<"a", " ", "1", ".", "m", "d">>}

\* An uploadFile that returns without uploading anything.
M_uploadFileSkipped(d, kind, path) == {}

\* The synchronous part of uploadFile(path) (and of updateRemote, the same
\* code): nothing without a file at path, else the file is read and the
\* upload of the payload is under way.
M_uploadFile(d, kind, path) ==
    IF path \in DOMAIN local[d]
    THEN {OpRec(d, kind, "payload", path, M_getAlias(path), <<>>,
                local[d][path].content, local[d][path].mtime, TRUE)}
    ELSE {}

\* uploadFileAsNew(path): uploadFile of the derived name.
M_uploadFileAsNew(d, path) == M_uploadFile(d, "uploadFile", CopyName(path))

\* downloadFile(key), up to its first await.
M_downloadFile(d, key) ==
    {OpRec(d, "downloadFile", "file", <<>>, key, <<>>, 0, 0, FALSE)}

\* The calls syncFiles makes for a local snapshot and a remote one.
M_Plan(localFiles, remoteFiles) ==
    {[act |-> IF FindByPath(remoteFiles, f.path) = {} THEN "uploadFile"
              ELSE IF \E r \in FindByPath(remoteFiles, f.path) :
                        f.timestamp > r.timestamp THEN "updateRemote"
              ELSE IF \E r \in FindByPath(remoteFiles, f.path) :
                        f.timestamp < r.timestamp THEN "uploadFileAsNew"
              ELSE "none",
      path |-> f.path] : f \in localFiles}
    \cup {[act |-> "downloadFile", path |-> r.path]
            : r \in {x \in remoteFiles : FindByPath(localFiles, x.path) = {}}}

M_Dispatch(d, call) ==
    CASE call.act = "uploadFile" -> M_uploadFile(d, "uploadFile", call.path)
      [] call.act = "updateRemote" -> M_uploadFile(d, "updateRemote", call.path)
      [] call.act = "uploadFileAsNew" -> M_uploadFileAsNew(d, call.path)
      [] call.act = "downloadFile" -> M_downloadFile(d, call.path)
      [] OTHER -> {}

\* What a pass records of a call: the local file at the path, if any, as it
\* is when the call is made.
Noted(d, call) ==
    [act |-> call.act, path |-> call.path,
     content |-> IF call.path \in DOMAIN local[d]
                 THEN local[d][call.path].content ELSE 0,
     mtime |-> IF call.path \in DOMAIN local[d]
               THEN local[d][call.path].mtime ELSE 0]

\* The user creates a file; main.ts registers no 'create' handler.
M_UserCreate(d, p) ==
    /\ d \in online /\ clock < MaxClock
    /\ p \notin DOMAIN local[d]
    /\ clock' = clock + 1
    /\ local' = [local EXCEPT ![d] = Put(@, p, File(clock', clock'))]
    /\ stage' = [e \in Devices |-> "none"]
    /\ last' = Step("UserCreate", d, p)
    /\ UNCHANGED <<online, remote, ops, sync, npass, pass, edited, moved,
                 modifiedFiles>>

\* The user edits a file: the 'modify' handler calls uploadFile(file.path).
M_UserModify(d, p) ==
    /\ d \in online /\ clock < MaxClock
    /\ p \in DOMAIN local[d]
    /\ clock' = clock + 1
    /\ local' = [local EXCEPT ![d] = Put(@, p, File(clock', clock'))]
    /\ ops' = Touched(ops, d, p, clock')
                \cup {OpRec(d, "uploadFile", "payload", p, M_getAlias(p), <<>>,
                            clock', clock', TRUE)}
    /\ stage' = [e \in Devices |-> "none"]
    /\ last' = Step("UserModify", d, p)
    /\ UNCHANGED <<online, remote, sync, npass, pass, edited, moved,
                 modifiedFiles>>

\* uploadFile / updateRemote: the payload lands under the alias; the sidecar
\* is built from the TFile as it is now, and its upload is under way.
M_UploadPayload(o) ==
    /\ o \in ops /\ o.kind \in {"uploadFile", "updateRemote"} /\ o.pc = "payload"
    /\ remote' = Put(remote, o.key, Bin(o.content))
    /\ ops' = (ops \ {o}) \cup {[o EXCEPT !.pc = "sidecar", !.live = FALSE]}
    /\ stage' = Others(o.dev)
    /\ last' = Step("UploadPayload", o.dev, o.key)
    /\ UNCHANGED <<online, clock, local, sync, npass, pass, edited, moved,
                 modifiedFiles>>

\* uploadFile / updateRemote: the sidecar lands under alias + '.meta.json'.
M_UploadSidecar(o) ==
    /\ o \in ops /\ o.kind \in {"uploadFile", "updateRemote"} /\ o.pc = "sidecar"
    /\ remote' = Put(remote, MetaKey(o.key), Json(o.path, o.mtime))
    /\ ops' = ops \ {o}
    /\ stage' = Settle(o.dev, ops')
    /\ last' = Step("UploadSidecar", o.dev, o.key)
    /\ UNCHANGED <<online, clock, local, sync, npass, pass, edited, moved,
                 modifiedFiles>>

\* downloadFile: the payload is fetched; without one the call returns.
M_DownloadPayload(o) ==
    /\ o \in ops /\ o.kind = "downloadFile" /\ o.pc = "file"
    /\ ops' = IF o.key \in DOMAIN remote
              THEN (ops \ {o}) \cup {[o EXCEPT !.pc = "meta",
                                        !.content = remote[o.key].content]}
              ELSE ops \ {o}
    /\ stage' = Settle(o.dev, ops')
    /\ last' = Step("DownloadPayload", o.dev, o.key)
    /\ UNCHANGED <<online, clock, local, remote, sync, npass, pass, edited,
                 moved, modifiedFiles>>

\* A downloadFile that writes the payload over the local file at the
\* sidecar's originalPath.
M_DownloadMetaOverwrites(o) ==
    /\ o \in ops /\ o.kind = "downloadFile" /\ o.pc = "meta"
    /\ LET d == o.dev
           found == MetaKey(o.key) \in DOMAIN remote
                        /\ remote[MetaKey(o.key)].kind = "json"
       IN  /\ found => clock < MaxClock
           /\ clock' = IF found THEN clock + 1 ELSE clock
           /\ local' = IF found
                       THEN [local EXCEPT ![d] =
                                Put(@, remote[MetaKey(o.key)].originalPath,
                                    File(o.content, clock'))]
                       ELSE local
    /\ ops' = ops \ {o}
    /\ stage' = Settle(o.dev, ops')
    /\ last' = Step("DownloadMeta", o.dev, o.key)
    /\ UNCHANGED <<online, remote, sync, npass, pass, edited, moved,
                 modifiedFiles>>

\* downloadFile: the sidecar is fetched; without one the call returns.  With
\* no local file at its originalPath, createBinary(path, ...) writes the
\* payload at the path the call was given, the remote key; createBinary
\* throws when a file is there already.
M_DownloadMeta(o) ==
    /\ o \in ops /\ o.kind = "downloadFile" /\ o.pc = "meta"
    /\ LET d == o.dev
           found == MetaKey(o.key) \in DOMAIN remote
                        /\ remote[MetaKey(o.key)].kind = "json"
           creates == /\ found
                      /\ remote[MetaKey(o.key)].originalPath \notin DOMAIN local[d]
                      /\ o.key \notin DOMAIN local[d]
       IN  /\ creates => clock < MaxClock
           /\ clock' = IF creates THEN clock + 1 ELSE clock
           /\ local' = IF creates
                       THEN [local EXCEPT ![d] = Put(@, o.key, File(o.content, clock'))]
                       ELSE local
    /\ ops' = ops \ {o}
    /\ stage' = Settle(o.dev, ops')
    /\ last' = Step("DownloadMeta", o.dev, o.key)
    /\ UNCHANGED <<online, remote, sync, npass, pass, edited, moved,
                 modifiedFiles>>

\* syncFiles, to its await of getRemoteFiles: the local snapshot is taken.
M_SyncStart(d) ==
    /\ d \in online /\ sync[d].pc = "idle" /\ npass < MaxPasses
    /\ npass' = npass + 1
    /\ sync' = [sync EXCEPT ![d] = [pc |-> "listing", localFiles |-> getLocalFiles(d)]]
    /\ pass' = [pass EXCEPT ![d] = NoPass]
    /\ stage' = [Others(d) EXCEPT ![d] =
                    IF stage[d] = "settled" THEN "second"
                    ELSE IF ops = {} /\ \A e \in Devices : sync[e].pc = "idle"
                    THEN "first" ELSE "none"]
    /\ last' = Step("SyncStart", d, <<>>)
    /\ UNCHANGED <<online, clock, local, remote, ops, edited, moved,
                 modifiedFiles>>

\* syncFiles, from the remote snapshot on: the two loops make their calls,
\* none of them awaited.
M_SyncDispatch(d) ==
    /\ d \in online /\ sync[d].pc = "listing"
    /\ LET plan == M_Plan(sync[d].localFiles, getRemoteFiles)
           new == UNION {M_Dispatch(d, call) : call \in plan}
       IN  /\ ops' = ops \cup new
           /\ pass' = [pass EXCEPT ![d] =
                        [local |-> sync[d].localFiles, remote |-> getRemoteFiles,
                         plan |-> {Noted(d, call) : call \in {c \in plan : c.act # "none"}},
                         launched |-> new]]
           /\ stage' = [Others(d) EXCEPT ![d] =
                          IF stage[d] = "second" THEN "secondDone"
                          ELSE IF stage[d] = "first"
                          THEN (IF {o \in ops' : o.dev = d} = {} THEN "settled" ELSE "first")
                          ELSE "none"]
    /\ sync' = [sync EXCEPT ![d] = Idle]
    /\ last' = Step("SyncDispatch", d, <<>>)
    /\ UNCHANGED <<online, clock, local, remote, npass, edited, moved,
                 modifiedFiles>>

InitTwo ==
    /\ online = Devices
    /\ clock = 0
    /\ local = [d \in Devices |-> Empty]
    /\ remote = Empty
    /\ ops = {}
    /\ sync = [d \in Devices |-> Idle]
    /\ npass = 0
    /\ pass = [d \in Devices |-> NoPass]
    /\ stage = [d \in Devices |-> "none"]
    /\ edited = [d \in Devices |-> Empty]
    /\ moved = [d \in Devices |-> NoMove]
    /\ modifiedFiles = [d \in Devices |-> <<>>]
    /\ last = Step("Init", 0, <<>>)

M_Next ==
    \/ \E d \in Devices, p \in M_Paths : M_UserCreate(d, p)
    \/ \E d \in Devices, p \in M_Paths : M_UserModify(d, p)
    \/ \E o \in ops : M_UploadPayload(o)
    \/ \E o \in ops : M_UploadSidecar(o)
    \/ \E o \in ops : M_DownloadPayload(o)
    \/ \E o \in ops : M_DownloadMeta(o)
    \/ \E d \in Devices : M_SyncStart(d)
    \/ \E d \in Devices : M_SyncDispatch(d)

\* Two devices running src/main.ts against one bucket.
SpecMain == InitTwo /\ [][M_Next]_vars

(***************************************************************************)
(* src/unnamed/part_001: handlers for create, modify, delete and rename, a *)
(* lossy alias, and a pass that downloads on any difference of timestamps. *)
(***************************************************************************)
P1_Paths == {<<"a", ".", "m", "d">>, <<"B", ".", "m", "d">>}

\* A rename moves the TFile: the operations of d that hold it follow.
Renamed(S, d, old, new) ==
    {IF o.dev = d /\ o.live /\ o.path = old THEN [o EXCEPT !.path = new] ELSE o
        : o \in S}

\* A delete leaves the operations that hold the TFile with a stale object.
Staled(S, d, p) ==
    {IF o.dev = d /\ o.live /\ o.path = p THEN [o EXCEPT !.live = FALSE] ELSE o
        : o \in S}

\* The synchronous part of uploadFile(path).
P1_uploadFile(d, path, vault) ==
    IF path \in DOMAIN vault
    THEN {OpRec(d, "uploadFile", "payload", path, P1_getAlias(path), <<>>,
                vault[path].content, vault[path].mtime, TRUE)}
    ELSE {}

\* deleteFile(path), up to its await.
P1_deleteFile(d, path) ==
    {OpRec(d, "deleteFile", "remove", path, <<>>, <<>>, 0, 0, FALSE)}

\* renameFile(oldPath, newPath), up to its first await.
P1_renameFile(d, oldPath, newPath) ==
    {OpRec(d, "renameFile", "moveFile", oldPath, <<>>, newPath, 0, 0, FALSE)}

\* downloadFile(path, null), up to its first await.
P1_downloadFile(d, key) ==
    {OpRec(d, "downloadFile", "file", <<>>, key, <<>>, 0, 0, FALSE)}

\* deleteLocalFile(path), up to its await: with a file at path, its removal
\* from the vault is under way.
P1_deleteLocalFile(d, path) ==
    IF path \in DOMAIN local[d]
    THEN {OpRec(d, "deleteLocalFile", "delete", path, <<>>, <<>>, 0, 0, TRUE)}
    ELSE {}

\* Nothing is in flight on any device.
Quiet == ops = {} /\ \A e \in Devices : sync[e].pc = "idle"

\* uploadFile(p) has completed: its payload and its sidecar are in the bucket.
P1_Uploaded(p) ==
    /\ P1_getAlias(p) \in DOMAIN remote
    /\ MetaKey(P1_getAlias(p)) \in DOMAIN remote
    /\ remote[MetaKey(P1_getAlias(p))].originalPath = p

\* The user creates a file: the 'create' handler calls uploadFile.
P1_UserCreate(d, p) ==
    /\ d \in online /\ clock < MaxClock /\ Cardinality(ops) < MaxOps
    /\ p \notin DOMAIN local[d]
    /\ clock' = clock + 1
    /\ local' = [local EXCEPT ![d] = Put(@, p, File(clock', clock'))]
    /\ ops' = ops \cup P1_uploadFile(d, p, local'[d])
    /\ edited' = [edited EXCEPT ![d] = Put(@, p, clock')]
    /\ moved' = [moved EXCEPT ![d] = NoMove]
    /\ last' = Step("UserCreate", d, p)
    /\ UNCHANGED <<online, remote, sync, npass, pass, stage, modifiedFiles>>

\* The user edits a file: the 'modify' handler calls uploadFile.
P1_UserModify(d, p) ==
    /\ d \in online /\ clock < MaxClock /\ Cardinality(ops) < MaxOps
    /\ p \in DOMAIN local[d]
    /\ clock' = clock + 1
    /\ local' = [local EXCEPT ![d] = Put(@, p, File(clock', clock'))]
    /\ ops' = Touched(ops, d, p, clock') \cup P1_uploadFile(d, p, local'[d])
    /\ edited' = [edited EXCEPT ![d] = Put(@, p, clock')]
    /\ moved' = [moved EXCEPT ![d] = NoMove]
    /\ last' = Step("UserModify", d, p)
    /\ UNCHANGED <<online, remote, sync, npass, pass, stage, modifiedFiles>>

\* The user deletes a file, at a later time than every earlier write: the
\* 'delete' handler calls deleteFile.
P1_UserDelete(d, p) ==
    /\ d \in online /\ clock < MaxClock /\ Cardinality(ops) < MaxOps
    /\ p \in DOMAIN local[d]
    /\ clock' = clock + 1
    /\ local' = [local EXCEPT ![d] = Drop(@, {p})]
    /\ ops' = Staled(ops, d, p) \cup P1_deleteFile(d, p)
    /\ edited' = [edited EXCEPT ![d] = Drop(@, {p})]
    /\ moved' = [moved EXCEPT ![d] =
                    IF Quiet /\ P1_Uploaded(p)
                    THEN [kind |-> "delete", old |-> p, new |-> <<>>,
                          state |-> "pending"]
                    ELSE NoMove]
    /\ last' = Step("UserDelete", d, p)
    /\ UNCHANGED <<online, remote, sync, npass, pass, stage, modifiedFiles>>

\* The user renames a file, at a later time than every earlier write; the
\* file keeps its mtime.  The 'rename' handler calls renameFile.
P1_UserRename(d, old, new) ==
    /\ d \in online /\ clock < MaxClock /\ Cardinality(ops) < MaxOps
    /\ old \in DOMAIN local[d] /\ new \notin DOMAIN local[d]
    /\ clock' = clock + 1
    /\ local' = [local EXCEPT ![d] = Put(Drop(@, {old}), new, @[old])]
    /\ ops' = Renamed(ops, d, old, new) \cup P1_renameFile(d, old, new)
    /\ edited' = [edited EXCEPT ![d] =
                    IF old \in DOMAIN @ THEN Put(Drop(@, {old}), new, @[old])
                    ELSE @]
    /\ moved' = [moved EXCEPT ![d] =
                    IF Quiet /\ P1_Uploaded(old)
                    THEN [kind |-> "rename", old |-> old, new |-> new,
                          state |-> "pending"]
                    ELSE NoMove]
    /\ last' = Step("UserRename", d, old)
    /\ UNCHANGED <<online, remote, sync, npass, pass, stage, modifiedFiles>>

\* uploadFile: the same code as in src/main.ts, with the alias of part_001.
P1_UploadPayload(o) == M_UploadPayload(o)
P1_UploadSidecar(o) == M_UploadSidecar(o)

\* downloadFile: the payload is fetched; without one the call returns.
P1_DownloadPayload(o) == M_DownloadPayload(o)

\* downloadFile: the sidecar is fetched; without one the call returns.  The
\* payload is written at the sidecar's originalPath: createBinary without a
\* file there, modifyBinary over the file that is there.  The write fires
\* 'create' or 'modify', whose handler calls uploadFile.
P1_DownloadMeta(o) ==
    /\ o \in ops /\ o.kind = "downloadFile" /\ o.pc = "meta"
    /\ LET d == o.dev
           found == MetaKey(o.key) \in DOMAIN remote
                        /\ remote[MetaKey(o.key)].kind = "json"
           localPath == IF o.to # <<>> THEN o.to
                        ELSE remote[MetaKey(o.key)].originalPath
       IN  IF found
           THEN /\ clock < MaxClock
                /\ clock' = clock + 1
                /\ local' = [local EXCEPT ![d] =
                                Put(@, localPath, File(o.content, clock'))]
                /\ ops' = Touched(ops \ {o}, d, localPath, clock')
                            \cup P1_uploadFile(d, localPath, local'[d])
           ELSE /\ ops' = ops \ {o}
                /\ UNCHANGED <<clock, local>>
    /\ last' = Step("DownloadMeta", o.dev, o.key)
    /\ UNCHANGED <<online, remote, sync, npass, pass, stage, edited, moved,
                 modifiedFiles>>

\* The history of a user's delete or rename: its handler has completed.
Handled(o) ==
    [moved EXCEPT ![o.dev] =
        IF @.state = "pending" /\ @.old = o.path /\ ops \ {o} = {}
        THEN [@ EXCEPT !.state = "done"] ELSE @]

\* deleteFile: remove([path, path + '.meta.json']).
P1_DeleteRemote(o) ==
    /\ o \in ops /\ o.kind = "deleteFile" /\ o.pc = "remove"
    /\ remote' = Drop(remote, {o.path, MetaKey(o.path)})
    /\ ops' = ops \ {o}
    /\ moved' = Handled(o)
    /\ last' = Step("DeleteRemote", o.dev, o.path)
    /\ UNCHANGED <<online, clock, local, sync, npass, pass, stage, edited,
                 modifiedFiles>>

\* storage move(from, to): the object is renamed; the call fails, and the
\* code ignores it, when there is no object at from or one at to already.
Move(from, to) ==
    IF from \in DOMAIN remote /\ to \notin DOMAIN remote
    THEN Put(Drop(remote, {from}), to, remote[from])
    ELSE remote

\* renameFile: move(oldPath, newPath).
P1_MoveFile(o) ==
    /\ o \in ops /\ o.kind = "renameFile" /\ o.pc = "moveFile"
    /\ remote' = Move(o.path, o.to)
    /\ ops' = (ops \ {o}) \cup {[o EXCEPT !.pc = "moveMeta"]}
    /\ last' = Step("MoveFile", o.dev, o.path)
    /\ UNCHANGED <<online, clock, local, sync, npass, pass, stage, edited,
                 moved, modifiedFiles>>

\* renameFile: move(oldPath + '.meta.json', newPath + '.meta.json').
P1_MoveMeta(o) ==
    /\ o \in ops /\ o.kind = "renameFile" /\ o.pc = "moveMeta"
    /\ remote' = Move(MetaKey(o.path), MetaKey(o.to))
    /\ ops' = ops \ {o}
    /\ moved' = Handled(o)
    /\ last' = Step("MoveMeta", o.dev, o.path)
    /\ UNCHANGED <<online, clock, local, sync, npass, pass, stage, edited,
                 modifiedFiles>>

\* deleteLocalFile: vault.delete removes the file the call holds; the
\* 'delete' handler calls deleteFile.
P1_DeleteLocal(o) ==
    /\ o \in ops /\ o.kind = "deleteLocalFile" /\ o.pc = "delete"
    /\ LET d == o.dev
       IN  IF o.live /\ o.path \in DOMAIN local[d]
           THEN /\ local' = [local EXCEPT ![d] = Drop(@, {o.path})]
                /\ ops' = Staled(ops \ {o}, d, o.path) \cup P1_deleteFile(d, o.path)
           ELSE /\ ops' = ops \ {o}
                /\ UNCHANGED local
    /\ last' = Step("DeleteLocal", o.dev, o.path)
    /\ UNCHANGED <<online, clock, remote, sync, npass, pass, stage, edited,
                 moved, modifiedFiles>>

\* The calls syncFiles makes for a local snapshot and a remote one.
P1_Plan(localFiles, remoteFiles) ==
    {[act |-> LET existsInRemote == FindByPath(remoteFiles, f.path)
                  existsInLocal == FindByPath(localFiles, f.path)
              IN  IF existsInRemote # {} /\ existsInLocal = {} THEN "downloadFile"
                  ELSE IF existsInLocal # {} /\ existsInRemote = {}
                  THEN "deleteLocalFile"
                  ELSE IF existsInLocal # {} /\ existsInRemote # {}
                          /\ \E r \in existsInRemote : f.timestamp # r.timestamp
                  THEN "downloadFile"
                  ELSE "none",
      path |-> f.path] : f \in localFiles}
    \cup {[act |-> "downloadFile", path |-> r.path]
            : r \in {x \in remoteFiles : FindByPath(localFiles, x.path) = {}}}

P1_Dispatch(d, call) ==
    CASE call.act = "downloadFile" -> P1_downloadFile(d, call.path)
      [] call.act = "deleteLocalFile" -> P1_deleteLocalFile(d, call.path)
      [] OTHER -> {}

\* syncFiles, to its await of getRemoteFiles: the local snapshot is taken.
P1_SyncStart(d) ==
    /\ d \in online /\ sync[d].pc = "idle" /\ npass < MaxPasses
    /\ npass' = npass + 1
    /\ sync' = [sync EXCEPT ![d] = [pc |-> "listing", localFiles |-> getLocalFiles(d)]]
    /\ pass' = [pass EXCEPT ![d] = NoPass]
    /\ moved' = [moved EXCEPT ![d] =
                    IF @.state = "done" THEN [@ EXCEPT !.state = "passing"]
                    ELSE NoMove]
    /\ last' = Step("SyncStart", d, <<>>)
    /\ UNCHANGED <<online, clock, local, remote, ops, stage, edited,
                 modifiedFiles>>

\* syncFiles, from the remote snapshot on: the two loops make their calls,
\* none of them awaited.
P1_SyncDispatch(d) ==
    /\ d \in online /\ sync[d].pc = "listing"
    /\ LET plan == P1_Plan(sync[d].localFiles, getRemoteFiles)
           new == UNION {P1_Dispatch(d, call) : call \in plan}
       IN  /\ ops' = ops \cup new
           /\ pass' = [pass EXCEPT ![d] =
                        [local |-> sync[d].localFiles, remote |-> getRemoteFiles,
                         plan |-> {Noted(d, call) : call \in {c \in plan : c.act # "none"}},
                         launched |-> new]]
    /\ sync' = [sync EXCEPT ![d] = Idle]
    /\ moved' = [moved EXCEPT ![d] =
                    IF @.state = "passing" THEN [@ EXCEPT !.state = "passed"]
                    ELSE @]
    /\ last' = Step("SyncDispatch", d, <<>>)
    /\ UNCHANGED <<online, clock, local, remote, npass, stage, edited,
                 modifiedFiles>>

InitOne ==
    /\ online = {1}
    /\ clock = 0
    /\ local = [d \in Devices |-> Empty]
    /\ remote = Empty
    /\ ops = {}
    /\ sync = [d \in Devices |-> Idle]
    /\ npass = 0
    /\ pass = [d \in Devices |-> NoPass]
    /\ stage = [d \in Devices |-> "none"]
    /\ edited = [d \in Devices |-> Empty]
    /\ moved = [d \in Devices |-> NoMove]
    /\ modifiedFiles = [d \in Devices |-> <<>>]
    /\ last = Step("Init", 0, <<>>)

P1_Next ==
    \/ \E d \in Devices, p \in P1_Paths : P1_UserCreate(d, p)
    \/ \E d \in Devices, p \in P1_Paths : P1_UserModify(d, p)
    \/ \E d \in Devices, p \in P1_Paths : P1_UserDelete(d, p)
    \/ \E d \in Devices, p \in P1_Paths, q \in P1_Paths : P1_UserRename(d, p, q)
    \/ \E o \in ops : P1_UploadPayload(o)
    \/ \E o \in ops : P1_UploadSidecar(o)
    \/ \E o \in ops : P1_DownloadPayload(o)
    \/ \E o \in ops : P1_DownloadMeta(o)
    \/ \E o \in ops : P1_DeleteRemote(o)
    \/ \E o \in ops : P1_MoveFile(o)
    \/ \E o \in ops : P1_MoveMeta(o)
    \/ \E o \in ops : P1_DeleteLocal(o)
    \/ \E d \in Devices : P1_SyncStart(d)
    \/ \E d \in Devices : P1_SyncDispatch(d)

\* One device running src/unnamed/part_001 against the bucket.
SpecP1 == InitOne /\ [][P1_Next]_vars

\* The file the two devices both edit.
P1_SharedPaths == {<<"a", ".", "m", "d">>}

\* The steps of devices whose users create and edit files, and delete and
\* rename none.
P1_EditNext ==
    \/ \E d \in Devices, p \in P1_SharedPaths : P1_UserCreate(d, p)
    \/ \E d \in Devices, p \in P1_SharedPaths : P1_UserModify(d, p)
    \/ \E o \in ops : P1_UploadPayload(o)
    \/ \E o \in ops : P1_UploadSidecar(o)
    \/ \E o \in ops : P1_DownloadPayload(o)
    \/ \E o \in ops : P1_DownloadMeta(o)
    \/ \E o \in ops : P1_DeleteRemote(o)
    \/ \E o \in ops : P1_DeleteLocal(o)
    \/ \E d \in Devices : P1_SyncStart(d)
    \/ \E d \in Devices : P1_SyncDispatch(d)

\* Two devices running src/unnamed/part_001 against one bucket.
SpecP1Two == InitTwo /\ [][P1_EditNext]_vars

(***************************************************************************)
(* Claims about src/main.ts.                                               *)
(***************************************************************************)
\* The keys the operations a pass launched write to.
WrittenBy(launched) ==
    UNION {{o.key, MetaKey(o.key)}
            : o \in {x \in launched : x.kind \in {"uploadFile", "updateRemote"}}}

\* C1: for a local file older than its matched remote entry, the pass writes
\* neither that entry's payload nor its sidecar, and once the operations of
\* the device have completed the bucket holds, under another key, a payload
\* with the local file's content.
C1_DivergentCopyStored ==
    \A d \in Devices : \A c \in pass[d].plan :
        (/\ c.act = "uploadFileAsNew"
         /\ \E r \in FindByPath(pass[d].remote, c.path) : c.mtime < r.timestamp) =>
            /\ {c.path, MetaKey(c.path)} \cap WrittenBy(pass[d].launched) = {}
            /\ (OpsOf(d) = {} /\ sync[d].pc = "idle") =>
                    \E k \in DOMAIN remote :
                        /\ k # c.path
                        /\ remote[k].kind = "bin"
                        /\ remote[k].content = c.content

\* C4: a pass run right after a pass of the same device, whose operations
\* have all completed, with no step of the user or of another device in
\* between, makes no upload and no download.
C4_SecondPassDoesNothing ==
    \A d \in Devices :
        stage[d] = "secondDone" =>
            /\ pass[d].plan = {}
            /\ pass[d].launched = {}

\* C9: when the remote snapshot of a pass holds the entry uploadFile writes
\* for a local path p, the entry under getAlias(p), the pass neither uploads
\* p as absent remotely nor downloads that entry as absent locally.
C9_UploadedFileIsMatched ==
    \A d \in Devices : \A f \in pass[d].local :
        FindByPath(pass[d].remote, M_getAlias(f.path)) # {} =>
            /\ \A c \in pass[d].plan :
                    ~(c.act = "uploadFile" /\ c.path = f.path)
            /\ \A c \in pass[d].plan :
                    ~(c.act = "downloadFile" /\ c.path = M_getAlias(f.path))

\* C10: a local file that downloadFile creates is created at the
\* originalPath its sidecar records, and only where no file was.
C10_CreatedAtOriginalPath ==
    [][last'.name = "DownloadMeta" =>
        \A p \in DOMAIN local'[last'.dev] :
            local'[last'.dev][p] # (IF p \in DOMAIN local[last'.dev]
                                    THEN local[last'.dev][p] ELSE <<>>) =>
                /\ p \notin DOMAIN local[last'.dev]
                /\ MetaKey(last'.path) \in DOMAIN remote
                /\ p = remote[MetaKey(last'.path)].originalPath]_vars


(***************************************************************************)
(* Claims about src/unnamed/part_001.                                      *)
(***************************************************************************)
\* Some vault or some payload of the bucket holds the content c.
Stored(c) ==
    \/ \E e \in Devices : \E q \in DOMAIN local[e] : local[e][q].content = c
    \/ \E k \in DOMAIN remote : remote[k].kind = "bin" /\ remote[k].content = c

\* The files that every device has edited.
EditedByAll == {p \in P1_Paths : \A d \in Devices : p \in DOMAIN edited[d]}

\* C2: with two devices on one bucket, whatever the interleaving of edits,
\* uploads on create and modify, and full passes, the content of each
\* device's latest edit of a file both have edited is still stored, in some
\* vault or under some key of the bucket, once nothing is in flight any more.
C2_LatestEditsSurvive ==
    Quiet => \A p \in EditedByAll : \A d \in Devices : Stored(edited[d][p])

\* C3: a local file disappears from a vault only by the user's delete (or
\* the user's rename, which moves it): no step of a full pass removes a file
\* for want of a remote counterpart.
C3_OnlyUserDeletes ==
    [][\A d \in Devices : \A p \in DOMAIN local[d] :
          p \notin DOMAIN local'[d] => last'.name \in {"UserDelete", "UserRename"}]_vars

\* C5: a download never overwrites a local file whose mtime is greater than
\* the timestamp of the remote version: a local file more recent than the
\* remote one is left untouched.
C5_NewerLocalUntouched ==
    [][last'.name = "DownloadMeta" =>
          \A p \in DOMAIN local[last'.dev] \cap DOMAIN local'[last'.dev] :
              local'[last'.dev][p] # local[last'.dev][p] =>
                  /\ MetaKey(last'.path) \in DOMAIN remote
                  /\ remote[MetaKey(last'.path)].timeStamp >= local[last'.dev][p].mtime]_vars

\* C6: once the handler of the delete or the rename of an uploaded file has
\* completed, a full pass that starts afterwards leaves no file at the
\* deleted path, or at the old path.
C6_NoResurrection ==
    \A d \in Devices :
        moved[d].state = "passed" => moved[d].old \notin DOMAIN local[d]

\* C7: after the user deletes a file p whose upload has completed,
\* deleteFile(p) removes from the bucket exactly the two keys that
\* uploadFile(p) wrote, getAlias(p) and getAlias(p) + '.meta.json'.
C7_DeleteRemovesAliasKeys ==
    [][(/\ last'.name = "DeleteRemote"
        /\ moved[last'.dev].kind = "delete"
        /\ moved[last'.dev].state = "pending"
        /\ moved[last'.dev].old = last'.path) =>
          remote' = Drop(remote, {P1_getAlias(last'.path),
                                  MetaKey(P1_getAlias(last'.path))})]_vars

\* C8: once renameFile(old, new) of an uploaded file has completed, the
\* payload and the sidecar are at getAlias(new) and no longer at
\* getAlias(old), and a full pass that starts afterwards makes no call for
\* the renamed file.
C8_RenameMovesAlias ==
    \A d \in Devices :
        (moved[d].kind = "rename" /\ moved[d].state \in {"done", "passing", "passed"}) =>
            LET old == P1_getAlias(moved[d].old)
                new == P1_getAlias(moved[d].new)
            IN  /\ {new, MetaKey(new)} \subseteq DOMAIN remote
                /\ old # new => {old, MetaKey(old)} \cap DOMAIN remote = {}
                /\ moved[d].state = "passed" =>
                       \A c \in pass[d].plan : c.path \notin {moved[d].new, new}

(***************************************************************************)
(* Further claims about src/main.ts.                                       *)
(***************************************************************************)
\* The sidecars of the bucket that name the local path p.
SidecarsOf(p) ==
    {k \in DOMAIN remote : remote[k].kind = "json" /\ remote[k].originalPath = p}

\* C11: a local file for which a full pass finds no remote entry is uploaded
\* by the pass: once the device's operations have completed, the bucket
\* holds a payload under the file's alias and one sidecar for the file, the
\* one next to that payload.
C11_NewFileUploadedOnce ==
    \A d \in Devices : \A c \in pass[d].plan :
        (c.act = "uploadFile" /\ OpsOf(d) = {} /\ sync[d].pc = "idle") =>
            /\ M_getAlias(c.path) \in DOMAIN remote
            /\ remote[M_getAlias(c.path)].kind = "bin"
            /\ SidecarsOf(c.path) = {MetaKey(M_getAlias(c.path))}

\* A pass has uploaded a file it found no remote entry for.
C11_Uploaded ==
    \E d \in Devices : \E c \in pass[d].plan :
        /\ c.act = "uploadFile" /\ OpsOf(d) = {} /\ sync[d].pc = "idle"
        /\ M_getAlias(c.path) \in DOMAIN remote
        /\ c.path # M_getAlias(c.path)

(***************************************************************************)
(* src/unnamed/part_000: a dirty set drained by a timer, and uploads that  *)
(* store each file under alias__timestamp.ext.                             *)
(***************************************************************************)
P0_Paths == {<<"a", ".", "m", "d">>, <<"a", " ", "1", ".", "m", "d">>}

\* getAlias of src/unnamed/part_000: the code of src/main.ts.
P0_getAlias(path) == M_getAlias(path)

DigitOf(n) ==
    CASE n = 0 -> "0" [] n = 1 -> "1" [] n = 2 -> "2" [] n = 3 -> "3"
      [] n = 4 -> "4" [] n = 5 -> "5" [] n = 6 -> "6" [] n = 7 -> "7"
      [] n = 8 -> "8" [] n = 9 -> "9"

ValueOf(c) == CHOOSE n \in 0..9 : DigitOf(n) = c

RECURSIVE Decimal(_)
\* `${timestamp}`: the decimal digits of a number.
Decimal(n) ==
    IF n < 10 THEN <<DigitOf(n)>> ELSE Decimal(n \div 10) \o <<DigitOf(n % 10)>>

RECURSIVE parseInt(_)
\* parseInt of a run of digits.
parseInt(s) ==
    IF s = <<>> THEN 0
    ELSE 10 * parseInt(SubSeq(s, 1, Len(s) - 1)) + ValueOf(s[Len(s)])

IsDigits(s) == s # <<>> /\ \A i \in 1..Len(s) : s[i] \in Digit

\* file.extension: the text after the last dot of the name.
Extension(path) == SplitPop(path)

\* `${alias}__${timestamp}.${ext}`
VersionName(alias, timestamp, ext) ==
    alias \o <<"_", "_">> \o Decimal(timestamp) \o <<".">> \o ext

\* A text matches a pattern spliced unescaped into a regular expression:
\* a dot of the pattern stands for any character, every other character of
\* the model's paths for itself.
MatchesRaw(pat, s) ==
    /\ Len(s) = Len(pat)
    /\ \A i \in 1..Len(pat) : pat[i] = "." \/ pat[i] = s[i]

\* new RegExp(`^${alias}__\\d+\\.${ext}$`).test(name)
RegexTest(alias, ext, name) ==
    LET n == Len(name) - Len(alias) - Len(ext) - 3
        at == Len(alias)
    IN  /\ n >= 1
        /\ MatchesRaw(alias, SubSeq(name, 1, at))
        /\ SubSeq(name, at + 1, at + 2) = <<"_", "_">>
        /\ IsDigits(SubSeq(name, at + 3, at + 2 + n))
        /\ name[at + 3 + n] = "."
        /\ MatchesRaw(ext, SubSeq(name, at + 4 + n, Len(name)))

\* The splits name = alias __ digits . ext that /^(.*)__([0-9]+)\.(.+)$/
\* admits, as [at, dot]: alias = name[1..at-1], the digits end before dot.
VersionSplits(name) ==
    UNION {{[at |-> a, dot |-> t] :
                t \in {x \in (a + 3)..(Len(name) - 1) :
                          name[x] = "." /\ IsDigits(SubSeq(name, a + 2, x - 1))}} :
            a \in {x \in 1..(Len(name) - 1) : name[x] = "_" /\ name[x + 1] = "_"}}

\* name.match(/^(.*)__([0-9]+)\.(.+)$/): the greedy (.*) takes the last
\* split; without a split there is no match.
MatchVersion(name) ==
    LET splits == VersionSplits(name)
        s == CHOOSE x \in splits : \A y \in splits : x.at >= y.at
    IN  IF splits = {} THEN [ok |-> FALSE, alias |-> <<>>, timestamp |-> 0, ext |-> <<>>]
        ELSE [ok |-> TRUE,
              alias |-> SubSeq(name, 1, s.at - 1),
              timestamp |-> parseInt(SubSeq(name, s.at + 2, s.dot - 1)),
              ext |-> SubSeq(name, s.dot + 1, Len(name))]

\* The character an escape sequence stands for; "" for none.
Unescape(e) ==
    LET hits == {c \in Chars \ UriUnreserved : UriEscape(c) = e}
    IN  IF hits = {} THEN "" ELSE CHOOSE c \in hits : TRUE

\* The length of the escape sequence s starts with: one '%XX' group for a
\* one-byte character, two for a two-byte one; 0 when s starts with none.
EscapeLen(s) ==
    IF Len(s) >= 6 /\ Unescape(SubSeq(s, 1, 6)) # "" THEN 6
    ELSE IF Len(s) >= 3 /\ Unescape(SubSeq(s, 1, 3)) # "" THEN 3
    ELSE 0

RECURSIVE decodeURIComponent(_)
\* decodeURIComponent: every escape sequence replaced by its character.
\* A '%' that starts no escape sequence makes it throw: the result is then
\* <<"URIError">>, which is no text of the model.
decodeURIComponent(s) ==
    IF s = <<>> THEN <<>>
    ELSE IF Head(s) # "%"
    THEN LET rest == decodeURIComponent(Tail(s))
         IN  IF rest = <<"URIError">> THEN rest ELSE <<Head(s)>> \o rest
    ELSE IF EscapeLen(s) = 0 THEN <<"URIError">>
    ELSE LET n == EscapeLen(s)
             rest == decodeURIComponent(SubSeq(s, n + 1, Len(s)))
         IN  IF rest = <<"URIError">> THEN rest
             ELSE <<Unescape(SubSeq(s, 1, n))>> \o rest

\* An upload(paths) in flight, and the download() that follows it in
\* syncNow.  paths: the paths still to go, the one at work first; key and
\* content: the name and the bytes the iteration at work will store;
\* entries: the names still to remove, or still to download.
P0_Op(id, dev, kind, pc, paths, key, content, entries) ==
    [id |-> id, dev |-> dev, kind |-> kind, pc |-> pc, paths |-> paths,
     key |-> key, content |-> content, entries |-> entries]

Range(s) == {s[i] : i \in DOMAIN s}

\* An add that appends the path even when the collection holds it already.
ArrayPush(s, x) == Append(s, x)

\* Set.prototype.add on a set kept in insertion order.
SetAdd(s, x) == IF x \in Range(s) THEN s ELSE Append(s, x)

\* The orders in which getFiles() may return the files of a vault.
Orders(S) ==
    {s \in [1..Cardinality(S) -> S] : \A i, j \in DOMAIN s : s[i] = s[j] => i = j}

\* Where an upload(paths) goes on with the paths that remain: to its next
\* iteration; at the end of the loop, to download() in syncNow, and to its
\* return in autoSync.
P0_After(o, rest) ==
    IF rest # <<>>
    THEN {[o EXCEPT !.pc = "read", !.paths = rest, !.key = <<>>,
                    !.content = 0, !.entries = {}]}
    ELSE IF o.kind = "syncNow"
    THEN {[o EXCEPT !.pc = "downloadList", !.paths = <<>>, !.key = <<>>,
                    !.content = 0, !.entries = {}]}
    ELSE {}

\* upload(paths), to its first await.
P0_upload(id, d, kind, paths) ==
    P0_After(P0_Op(id, d, kind, "read", paths, <<>>, 0, {}), paths)

\* The user creates a file; part_000 registers no 'create' handler.
P0_UserCreate(d, p) ==
    /\ d \in online /\ clock < MaxClock
    /\ p \notin DOMAIN local[d]
    /\ clock' = clock + 1
    /\ local' = [local EXCEPT ![d] = Put(@, p, File(clock', clock'))]
    /\ last' = Step("UserCreate", d, p)
    /\ UNCHANGED <<online, remote, ops, sync, npass, pass, stage, edited, moved,
                   modifiedFiles>>

\* The user edits a file: the 'modify' handler adds its path to the set.
P0_UserModify(d, p) ==
    /\ d \in online /\ clock < MaxClock
    /\ p \in DOMAIN local[d]
    /\ clock' = clock + 1
    /\ local' = [local EXCEPT ![d] = Put(@, p, File(clock', clock'))]
    /\ modifiedFiles' = [modifiedFiles EXCEPT ![d] = SetAdd(@, p)]
    /\ last' = Step("UserModify", d, p)
    /\ UNCHANGED <<online, remote, ops, sync, npass, pass, stage, edited, moved>>

\* An autoSync that hands only the first path of the set to upload.
P0_AutoSyncFirstOnly(d) ==
    /\ d \in online
    /\ IF modifiedFiles[d] # <<>>
       THEN /\ npass < MaxPasses
            /\ npass' = npass + 1
            /\ ops' = ops \cup P0_upload(npass', d, "autoSync",
                                         <<Head(modifiedFiles[d])>>)
            /\ modifiedFiles' = [modifiedFiles EXCEPT ![d] = <<>>]
       ELSE UNCHANGED <<npass, ops, modifiedFiles>>
    /\ last' = Step("AutoSync", d, <<>>)
    /\ UNCHANGED <<online, clock, local, remote, sync, pass, stage, edited, moved>>

\* The timer fires autoSync: with a non-empty set, the set is copied and
\* cleared and upload is called with the copy; with an empty set, nothing.
P0_AutoSync(d) ==
    /\ d \in online
    /\ IF modifiedFiles[d] # <<>>
       THEN /\ npass < MaxPasses
            /\ npass' = npass + 1
            /\ ops' = ops \cup P0_upload(npass', d, "autoSync", modifiedFiles[d])
            /\ modifiedFiles' = [modifiedFiles EXCEPT ![d] = <<>>]
       ELSE UNCHANGED <<npass, ops, modifiedFiles>>
    /\ last' = Step("AutoSync", d, <<>>)
    /\ UNCHANGED <<online, clock, local, remote, sync, pass, stage, edited, moved>>

\* The ribbon icon calls syncNow: upload of every file of the vault, then
\* download.
P0_SyncNow(d) ==
    /\ d \in online /\ npass < MaxPasses
    /\ npass' = npass + 1
    /\ \E allFiles \in Orders(DOMAIN local[d]) :
            ops' = ops \cup P0_upload(npass', d, "syncNow", allFiles)
    /\ last' = Step("SyncNow", d, <<>>)
    /\ UNCHANGED <<online, clock, local, remote, sync, pass, stage, edited, moved,
                   modifiedFiles>>

\* upload, lines 57 to 68 of an iteration: without a file at the path the
\* loop goes on; else the file is read, Date.now() is taken (the time of
\* the latest write or a later one), and the bucket's listing is asked for.
P0_Read(o) ==
    /\ o \in ops /\ o.pc = "read"
    /\ LET d == o.dev
           path == Head(o.paths)
       IN  IF path \notin DOMAIN local[d]
           THEN /\ ops' = (ops \ {o}) \cup P0_After(o, Tail(o.paths))
                /\ UNCHANGED clock
           ELSE \E timestamp \in {clock, clock + 1} :
                /\ timestamp <= MaxClock
                /\ clock' = timestamp
                /\ ops' = (ops \ {o}) \cup
                      {[o EXCEPT !.pc = "list",
                                 !.content = local[d][path].content,
                                 !.key = VersionName(P0_getAlias(path), timestamp,
                                                     Extension(path))]}
    /\ last' = Step("Read", o.dev, Head(o.paths))
    /\ UNCHANGED <<online, local, remote, sync, npass, pass, stage, edited, moved,
                   modifiedFiles>>

\* upload: readBinary rejects; nothing catches it, so upload, and the
\* autoSync or syncNow that awaits it, end there.
P0_ReadFail(o) ==
    /\ o \in ops /\ o.pc = "read"
    /\ Head(o.paths) \in DOMAIN local[o.dev]
    /\ ops' = ops \ {o}
    /\ last' = Step("ReadFail", o.dev, Head(o.paths))
    /\ UNCHANGED <<online, clock, local, remote, sync, npass, pass, stage, edited,
                   moved, modifiedFiles>>

\* upload: the listing arrives; the names the regular expression accepts
\* are the ones to remove.
P0_List(o) ==
    /\ o \in ops /\ o.pc = "list"
    /\ LET path == Head(o.paths)
       IN  ops' = (ops \ {o}) \cup
                {[o EXCEPT !.pc = "remove",
                           !.entries = {k \in DOMAIN remote :
                                RegexTest(P0_getAlias(path), Extension(path), k)}]}
    /\ last' = Step("List", o.dev, Head(o.paths))
    /\ UNCHANGED <<online, clock, local, remote, sync, npass, pass, stage, edited,
                   moved, modifiedFiles>>

\* upload: remove([entry.name]) for one accepted name.
P0_Remove(o) ==
    /\ o \in ops /\ o.pc = "remove"
    /\ \E k \in o.entries :
        /\ remote' = Drop(remote, {k})
        /\ ops' = (ops \ {o}) \cup {[o EXCEPT !.entries = @ \ {k}]}
    /\ last' = Step("Remove", o.dev, Head(o.paths))
    /\ UNCHANGED <<online, clock, local, sync, npass, pass, stage, edited, moved,
                   modifiedFiles>>

\* upload: the payload is stored under alias__timestamp.ext; no sidecar is
\* written (the code for one is commented out).
P0_Upload(o) ==
    /\ o \in ops /\ o.pc = "remove" /\ o.entries = {}
    /\ remote' = Put(remote, o.key, Bin(o.content))
    /\ ops' = (ops \ {o}) \cup P0_After(o, Tail(o.paths))
    /\ last' = Step("Upload", o.dev, Head(o.paths))
    /\ UNCHANGED <<online, clock, local, sync, npass, pass, stage, edited, moved,
                   modifiedFiles>>

\* upload: the store call fails; its result is not looked at and the loop
\* goes on.
P0_UploadFail(o) ==
    /\ o \in ops /\ o.pc = "remove" /\ o.entries = {}
    /\ ops' = (ops \ {o}) \cup P0_After(o, Tail(o.paths))
    /\ last' = Step("UploadFail", o.dev, Head(o.paths))
    /\ UNCHANGED <<online, clock, local, remote, sync, npass, pass, stage, edited,
                   moved, modifiedFiles>>

\* download, lines 98 to 110: for each alias of the listing, the name with
\* the greatest timestamp (two names of an alias with one timestamp differ
\* in their extension only; the model's paths have one extension).
latestFiles ==
    LET match == [k \in DOMAIN remote |-> MatchVersion(k)]
    IN  {k \in DOMAIN remote :
            /\ match[k].ok
            /\ \A j \in DOMAIN remote :
                  (match[j].ok /\ match[j].alias = match[k].alias)
                      => match[j].timestamp <= match[k].timestamp}

\* Where download() goes on with the names that remain.
P0_More(o, rest) ==
    IF rest = {} THEN {} ELSE {[o EXCEPT !.pc = "download", !.entries = rest]}

\* download: the listing arrives and the latest name of each alias is kept.
P0_DownloadList(o) ==
    /\ o \in ops /\ o.pc = "downloadList"
    /\ ops' = (ops \ {o}) \cup P0_More(o, latestFiles)
    /\ last' = Step("DownloadList", o.dev, <<>>)
    /\ UNCHANGED <<online, clock, local, remote, sync, npass, pass, stage, edited,
                   moved, modifiedFiles>>

\* download, one iteration of its second loop: the payload is fetched (the
\* loop goes on without one); the path is decodeURIComponent(alias), which
\* may throw and end download; without a file at the path one is created;
\* a file there is overwritten when the name's timestamp is greater than
\* its mtime, which fires 'modify'.
P0_Download(o) ==
    /\ o \in ops /\ o.pc = "download"
    /\ \E name \in o.entries :
        LET d == o.dev
            alias == MatchVersion(name).alias
            timestamp == MatchVersion(name).timestamp
            path == decodeURIComponent(alias)
        IN  /\ last' = Step("Download", d, name)
            /\ IF name \notin DOMAIN remote
               THEN /\ ops' = (ops \ {o}) \cup P0_More(o, o.entries \ {name})
                    /\ UNCHANGED <<clock, local, modifiedFiles>>
               ELSE IF path = <<"URIError">>
               THEN /\ ops' = ops \ {o}
                    /\ UNCHANGED <<clock, local, modifiedFiles>>
               ELSE IF path \notin DOMAIN local[d]
               THEN /\ clock < MaxClock
                    /\ clock' = clock + 1
                    /\ local' = [local EXCEPT ![d] =
                                    Put(@, path, File(remote[name].content, clock'))]
                    /\ ops' = (ops \ {o}) \cup P0_More(o, o.entries \ {name})
                    /\ UNCHANGED modifiedFiles
               ELSE IF timestamp > local[d][path].mtime
               THEN /\ clock < MaxClock
                    /\ clock' = clock + 1
                    /\ local' = [local EXCEPT ![d] =
                                    Put(@, path, File(remote[name].content, clock'))]
                    /\ modifiedFiles' = [modifiedFiles EXCEPT ![d] = SetAdd(@, path)]
                    /\ ops' = (ops \ {o}) \cup P0_More(o, o.entries \ {name})
               ELSE /\ ops' = (ops \ {o}) \cup P0_More(o, o.entries \ {name})
                    /\ UNCHANGED <<clock, local, modifiedFiles>>
    /\ UNCHANGED <<online, remote, sync, npass, pass, stage, edited, moved>>

\* One device with a.md in its vault when the plugin loads, and an empty
\* bucket.
InitP0 ==
    /\ online = {1}
    /\ clock = 0
    /\ local = [d \in Devices |->
                    IF d = 1 THEN Put(Empty, <<"a", ".", "m", "d">>, File(0, 0))
                    ELSE Empty]
    /\ remote = Empty
    /\ ops = {}
    /\ sync = [d \in Devices |-> Idle]
    /\ npass = 0
    /\ pass = [d \in Devices |-> NoPass]
    /\ stage = [d \in Devices |-> "none"]
    /\ edited = [d \in Devices |-> Empty]
    /\ moved = [d \in Devices |-> NoMove]
    /\ modifiedFiles = [d \in Devices |-> <<>>]
    /\ last = Step("Init", 0, <<>>)

P0_Next ==
    \/ \E d \in Devices, p \in P0_Paths : P0_UserCreate(d, p)
    \/ \E d \in Devices, p \in P0_Paths : P0_UserModify(d, p)
    \/ \E d \in Devices : P0_AutoSync(d)
    \/ \E d \in Devices : P0_SyncNow(d)
    \/ \E o \in ops : P0_Read(o)
    \/ \E o \in ops : P0_ReadFail(o)
    \/ \E o \in ops : P0_List(o)
    \/ \E o \in ops : P0_Remove(o)
    \/ \E o \in ops : P0_Upload(o)
    \/ \E o \in ops : P0_UploadFail(o)
    \/ \E o \in ops : P0_DownloadList(o)
    \/ \E o \in ops : P0_Download(o)

\* One device running src/unnamed/part_000 against the bucket.
SpecP0 == InitP0 /\ [][P0_Next]_vars

(***************************************************************************)
(* Claims about src/unnamed/part_000.                                      *)
(***************************************************************************)
\* C12: whenever no upload is in flight, every payload of the bucket has its
\* sidecar next to it, under the payload's key + '.meta.json'.
C12_PayloadsHaveSidecars ==
    ops = {} =>
        \A k \in DOMAIN remote :
            remote[k].kind = "bin" =>
                /\ MetaKey(k) \in DOMAIN remote
                /\ remote[MetaKey(k)].kind = "json"

\* The paths that the calls of upload started by this step are given.
HandedToUpload(d) ==
    UNION {Range(o.paths) : o \in {x \in ops' \ ops : x.dev = d /\ x.pc = "read"}}

\* C13: no path is lost from the dirty set.  A 'modify' event leaves its
\* path in the set, whatever is in flight; a path leaves the set only in a
\* step of autoSync that hands it to upload.
C13_NoDirtyPathLost ==
    [][\A d \in Devices :
          /\ (last'.name = "UserModify" /\ last'.dev = d)
                => last'.path \in Range(modifiedFiles'[d])
          /\ \A p \in Range(modifiedFiles[d]) :
                p \notin Range(modifiedFiles'[d])
                    => (last'.name = "AutoSync" /\ p \in HandedToUpload(d))]_vars

\* A 'modify' event arrived while an autoSync awaited its upload, and the
\* next timer fire has drained it: two uploads of autoSync are in flight.
C13_DrainedWhileUploading ==
    \E o1, o2 \in ops :
        /\ o1.id # o2.id /\ o1.dev = o2.dev
        /\ o1.kind = "autoSync" /\ o2.kind = "autoSync"
        /\ o2.pc = "read" /\ o1.pc = "remove"

\* C14: a path whose upload fails during a flush of autoSync is pending
\* again, in the dirty set, for the next timer fire.
C14_FailedUploadStaysDirty ==
    [][(/\ last'.name = "UploadFail"
        /\ \E o \in ops \ ops' : o.kind = "autoSync" /\ o.dev = last'.dev)
          => last'.path \in Range(modifiedFiles'[last'.dev])]_vars

\* A sequence without a repeated element.
Distinct(s) == \A i, j \in DOMAIN s : s[i] = s[j] => i = j

\* C15: a timer fire with a non-empty dirty set makes one call of upload,
\* which holds each dirty path once, and leaves the set empty; each store
\* step of upload takes its path off the paths still to go; a timer fire
\* with an empty set starts no call and leaves the bucket as it is.
C15_OneUploadPerDirtyPath ==
    [][/\ last'.name = "AutoSync" =>
            LET d == last'.dev
                new == ops' \ ops
            IN  IF modifiedFiles[d] # <<>>
                THEN /\ Cardinality(new) = 1
                     /\ \A o \in new : /\ o.pc = "read" /\ Distinct(o.paths)
                                       /\ Range(o.paths) = Range(modifiedFiles[d])
                     /\ modifiedFiles'[d] = <<>>
                ELSE ops' = ops /\ remote' = remote
       /\ last'.name = "Upload" =>
            \A o \in ops \ ops' : \A n \in ops' \ ops :
                n.id = o.id => Len(n.paths) < Len(o.paths)]_vars

\* The first timer fire after two edits of a.md has handed a.md to upload.
C15_TwoEditsOneUpload ==
    /\ last.name = "AutoSync"
    /\ \E o \in ops : /\ o.kind = "autoSync" /\ o.pc = "read" /\ o.id = 1
                      /\ o.paths = <<<<"a", ".", "m", "d">>>>
                      /\ local[o.dev][<<"a", ".", "m", "d">>].mtime = 2

\* C16: a failure on one item of a pass leaves the other items of the pass
\* to be processed: after a failed read of one path, upload goes on with the
\* paths that remain.
C16_FailureSkipsOneItem ==
    [][last'.name = "ReadFail" =>
          \A o \in ops \ ops' :
              Len(o.paths) > 1 =>
                  \E n \in ops' : n.id = o.id /\ n.paths = Tail(o.paths)]_vars

\* C17: uploading a new version of a file leaves every older version stored
\* for its alias in the bucket: no step of an upload removes a version whose
\* timestamp is less than that of the version the upload is about to store.
C17_UploadKeepsOldVersions ==
    [][\A k \in DOMAIN remote :
          k \notin DOMAIN remote' =>
              \E o \in ops :
                  /\ o.pc = "remove" /\ k \in o.entries
                  /\ MatchVersion(o.key).timestamp <= MatchVersion(k).timestamp]_vars

VersionsOf(k, keys) ==
    {j \in keys : /\ MatchVersion(j).ok
                  /\ MatchVersion(j).alias = MatchVersion(k).alias
                  /\ MatchVersion(j).ext = MatchVersion(k).ext}

NewerThan(k, keys) ==
    {j \in VersionsOf(k, keys) : MatchVersion(j).timestamp > MatchVersion(k).timestamp}

\* C18: pruning keeps, for every alias, the three versions with the largest
\* sequence tags: a version is removed from the bucket only when at least
\* three versions of its alias with a larger timestamp are kept, the one the
\* pruning upload is about to store included (a key removed to be stored
\* again under the same name is not a lost version).
C18_PruningKeepsThreeLatest ==
    [][\A k \in DOMAIN remote :
          k \notin DOMAIN remote' =>
              \E o \in ops :
                  /\ o.pc = "remove" /\ k \in o.entries
                  /\ \/ k = o.key
                     \/ Cardinality(NewerThan(k, DOMAIN remote' \cup {o.key})) >= 3]_vars

(***************************************************************************)
(* src/main.ts against a bucket that can lose objects.                     *)
(***************************************************************************)
\* The bucket loses the sidecar k of a payload a downloadFile is fetching: the
\* download of `${path}.meta.json` then returns an error.
M_SidecarLost(k) ==
    /\ k \in DOMAIN remote /\ remote[k].kind = "json"
    /\ \E o \in ops : o.kind = "downloadFile" /\ MetaKey(o.key) = k
    /\ remote' = Drop(remote, {k})
    /\ stage' = [e \in Devices |-> "none"]
    /\ last' = Step("SidecarLost", 0, k)
    /\ UNCHANGED <<online, clock, local, ops, sync, npass, pass, edited, moved,
                 modifiedFiles>>

M_OrphanNext ==
    \/ M_Next
    \/ \E k \in DOMAIN remote : M_SidecarLost(k)

\* Two devices running src/main.ts against a bucket that can lose sidecars.
SpecMainOrphan == InitTwo /\ [][M_OrphanNext]_vars

\* The payloads of the bucket that have no sidecar.
Orphans ==
    {k \in DOMAIN remote : remote[k].kind = "bin" /\ MetaKey(k) \notin DOMAIN remote}

\* C19: a payload whose sidecar is missing is skipped: the remote snapshot a
\* pass takes (getRemoteFiles) has no entry for it and the pass calls no
\* downloadFile for it; a downloadFile that finds the sidecar gone leaves
\* every vault as it is; and a sidecar enters the bucket only as the second
\* step of an upload of a local file.
C19_OrphanSkipped ==
    [][/\ last'.name = "SyncDispatch" =>
            \A k \in Orphans :
                /\ \A r \in pass'[last'.dev].remote : r.path # k
                /\ \A o \in ops' \ ops : o.kind = "downloadFile" => o.key # k
       /\ (last'.name = "DownloadMeta" /\ last'.path \in Orphans) =>
            local' = local
       /\ \A k \in DOMAIN remote' :
            (remote'[k].kind = "json" /\ k \notin DOMAIN remote) =>
                \E o \in ops : /\ o.kind \in {"uploadFile", "updateRemote"}
                               /\ o.pc = "sidecar" /\ k = MetaKey(o.key)]_vars

\* A downloadFile has found its payload without a sidecar and returned.
C19_DownloadSawOrphan ==
    /\ last.name = "DownloadMeta"
    /\ last.path \in Orphans

\* C20: when syncFiles returns, every upload and download the pass dispatched
\* has completed: right after the step that ends a pass, none of the
\* operations it launched is in flight.
C20_PassCollectsResults ==
    \A d \in Devices :
        (last.name = "SyncDispatch" /\ last.dev = d /\ sync[d].pc = "idle") =>
            pass[d].launched \cap ops = {}

\* C21: at most one full-sync pass of a device is in flight at any time: no
\* pass starts on a device while an operation dispatched by the device's
\* previous pass is still running.
C21_OnePassInFlight ==
    [][last'.name = "SyncStart" => pass[last'.dev].launched \cap ops = {}]_vars

(***************************************************************************)
(* src/unnamed/part_001 with paths that differ in case or punctuation.     *)
(***************************************************************************)
P1_AliasPaths ==
    {<<"a", ".", "m", "d">>, <<"A", ".", "m", "d">>, <<"_", "a", ".", "m", "d">>,
     <<"b", ".", "m", "d">>}

\* The user creates and edits files; the handlers upload them.
P1_AliasNext ==
    \/ \E d \in Devices, p \in P1_AliasPaths : P1_UserCreate(d, p)
    \/ \E d \in Devices, p \in P1_AliasPaths : P1_UserModify(d, p)
    \/ \E o \in ops : P1_UploadPayload(o)
    \/ \E o \in ops : P1_UploadSidecar(o)

SpecP1Alias == InitOne /\ [][P1_AliasNext]_vars

\* C22: two distinct local paths never share a remote key: the uploads of
\* two files of a vault write different keys, and no upload replaces a
\* sidecar that records another file's path.
C22_DistinctPathsDistinctKeys ==
    [][/\ \A d \in Devices : \A p, q \in DOMAIN local'[d] :
            p # q => P1_uploadFile(d, p, local'[d]) # {}
                     /\ \A o1 \in P1_uploadFile(d, p, local'[d]) :
                        \A o2 \in P1_uploadFile(d, q, local'[d]) : o1.key # o2.key
       /\ \A k \in DOMAIN remote \cap DOMAIN remote' :
            (remote[k].kind = "json" /\ remote'[k].kind = "json") =>
                remote'[k].originalPath = remote[k].originalPath]_vars

(***************************************************************************)
(* Further claims about src/unnamed/part_000.                              *)
(***************************************************************************)
\* C23: once overlapping uploads of one path have all completed, the bucket
\* holds exactly one version of the path's alias and extension.
C23_OverlapLeavesOneVersion ==
    ops = {} =>
        \A k \in DOMAIN remote :
            MatchVersion(k).ok => VersionsOf(k, DOMAIN remote) = {k}

\* C24: an alias that has a version in the bucket keeps at least one: no step
\* takes the last version of an alias away (the program has no delete).
C24_AliasNeverEmptied ==
    [][\A k \in DOMAIN remote :
          MatchVersion(k).ok => VersionsOf(k, DOMAIN remote') # {}]_vars

(***************************************************************************)
(* Further claims about src/unnamed/part_001.                              *)
(***************************************************************************)
\* The paths no other path shares its alias with.
AloneAtAlias(p) ==
    \A q \in P1_AliasPaths : P1_getAlias(q) = P1_getAlias(p) => q = p

\* C25: once the overlapping uploads of a path have all completed, the
\* sidecar's timeStamp is the modification time of the version in the
\* payload.  The user's writes are the only ones here, and each gives a file
\* the time of the write as its content and as its mtime.
C25_SidecarMatchesPayload ==
    \A p \in P1_AliasPaths :
        (/\ AloneAtAlias(p) /\ ops = {}
         /\ P1_getAlias(p) \in DOMAIN remote
         /\ MetaKey(P1_getAlias(p)) \in DOMAIN remote) =>
            remote[MetaKey(P1_getAlias(p))].timeStamp = remote[P1_getAlias(p)].content

\* C26: in every state of the bucket, every sidecar X.meta.json has its
\* payload X next to it.
C26_SidecarsHavePayloads ==
    \A k \in DOMAIN remote :
        (remote[k].kind = "json" /\ EndsWith(k, MetaSuffix)) =>
            /\ RemoveFirst(k, MetaSuffix) \in DOMAIN remote
            /\ remote[RemoveFirst(k, MetaSuffix)].kind = "bin"

\* Every device holds every shared file with the content of the bucket's
\* payload for it, whose sidecar is in the bucket too.
Converged ==
    \A p \in P1_SharedPaths :
        /\ P1_getAlias(p) \in DOMAIN remote
        /\ MetaKey(P1_getAlias(p)) \in DOMAIN remote
        /\ \A d \in Devices :
            /\ p \in DOMAIN local[d]
            /\ local[d][p].content = remote[P1_getAlias(p)].content

\* The calls a pass of device d would make in this state.
WouldIssue(d) ==
    {c \in P1_Plan(getLocalFiles(d), getRemoteFiles) : c.act # "none"}

\* C27: the system quiesces: once nothing is in flight and every device
\* holds the bucket's content, the writes of downloadFile and the uploads
\* they caused included, a further pass of any device issues no upload and
\* no download.
C27_ConvergedIsQuiescent ==
    (Quiet /\ Converged) => \A d \in Devices : WouldIssue(d) = {}

====
